---- MODULE Spec2Model ----
(***************************************************************************)
(* Route generation of the travel route planner (routeService.js):         *)
(* generateWalkingRoute with its search loop validateAndRetryRoute,        *)
(* generateCyclingRoute with its per-day search generateCityRouteWithRetry *)
(* and the provider call callOpenRouteService.                             *)
(*                                                                         *)
(* Units.  Coordinates are integers in micro-degrees; a waypoint is the    *)
(* pair <<lng, lat>> the code sends to the provider and a path point is    *)
(* the record [lat, lng] the code builds from the response.  Distances     *)
(* measured by the provider are in hectometres (0.1 km), so 11.2 km is     *)
(* 112.  The walking radius is in millionths of a km.  Cosines are         *)
(* per-mille integers.                                                     *)
(***************************************************************************)
EXTENDS Integers, Sequences, FiniteSets, TLC

VARIABLES
    routeType,          \* params.routeType: "walking" or "cycling"
    pc,                 \* position of generateRoute: "start", "walkSearch", "citySearch", "done"
    geocoded,           \* how the call of geocodeLocation ended (resolved value or error)
    center,             \* the geocoded start (centerLat/centerLng, startLat/startLng)
    day,                \* cycling: the day whose search is running (1 or 2)
    attempt,            \* loop variable of the running search
    currentWaypoints,   \* waypoint list of the running search
    currentRadius,      \* walking: currentRadius
    currentProfile,     \* profile sent by the running search
    day1Waypoints,      \* cycling: waypoints proposed for day 1 before its search
    day2Waypoints,      \* cycling: waypoints proposed for day 2 before any search
    day1Result,         \* cycling: {response, actualDistance} returned by the day-1 search
    day1AcceptedEnd,    \* cycling: currentWaypoints[1] of the day-1 attempt that was accepted
    calls,              \* invocations of callOpenRouteService by the running search
    observed,           \* what the provider measured during the running search
    lastRequest,        \* coordinates and profile of the latest callOpenRouteService invocation
    lastOutcome,        \* what that invocation returned or threw
    route,              \* the route object returned by generateRoute
    failure,            \* the error thrown by generateRoute
    \* one invocation of callOpenRouteService, statement by statement
    apiKey,             \* whether process.env.OPENROUTESERVICE_API_KEY is set
    orsCoordinates,     \* its argument coordinates
    orsProfile,         \* its argument profile
    orsPc,              \* its position: "idle", "validate", "request", "retry429", "backoff", "done"
    orsAttempt,         \* its local variable attempt
    lastError,          \* message of its local variable lastError
    requests,           \* the bodies axios.post has sent, in order
    slots,              \* calls of addRequestDelay('openRouteService') completed
    answers,            \* the HTTP status of each answer, 0 for no answer
    backoffs,           \* the backoffDelay of each wait, in ms
    orsOutcome,         \* what the invocation returned or threw
    \* the rate limiter of rateLimiter.js for 'openRouteService' and its callers
    now,                \* Date.now(), in ms
    config,             \* API_RATE_LIMITS.openRouteService: requests and lastRequest
    callers,            \* per caller of makeRateLimitedRequest: position, wake-up time, calls made
    sentLog,            \* the requests requestFn() has sent: time and what config held then
    \* routeGenerationLimiter of rateLimiter.js for one user session
    genNow,             \* Date.now(), in ms
    arrived,            \* the number of requests that reached the middleware
    routeRequests,      \* req.session.routeRequests
    passed,             \* the times of the requests handed to next()
    genResponse,        \* what the middleware did with the latest request
    \* the routes collection and the requests of routes.js that write it
    store,              \* the stored Route documents
    nextId,             \* the _id the next stored document gets
    savers,             \* per POST /save request under way: position and body
    storeStatus         \* the status of the latest response

searchVars == <<routeType, pc, geocoded, center, day, attempt, currentWaypoints,
                currentRadius, currentProfile, day1Waypoints, day2Waypoints, day1Result,
                day1AcceptedEnd, calls, observed, lastRequest, lastOutcome, route, failure>>

orsVars == <<apiKey, orsCoordinates, orsProfile, orsPc, orsAttempt, lastError,
             requests, slots, answers, backoffs, orsOutcome>>

limVars == <<now, config, callers, sentLog>>

genVars == <<genNow, arrived, routeRequests, passed, genResponse>>

storeVars == <<store, nextId, savers, storeStatus>>

vars == <<searchVars, orsVars, limVars, genVars, storeVars>>

(* What the actions of each specification leave alone. *)
outsideSearch == <<orsVars, limVars, genVars, storeVars>>

outsideORS == <<searchVars, limVars, genVars, storeVars>>

outsideLimiter == <<searchVars, orsVars, genVars, storeVars>>

outsideGen == <<searchVars, orsVars, limVars, storeVars>>

outsideStore == <<searchVars, orsVars, limVars, genVars>>

----------------------------------------------------------------------------
(* Values standing for JavaScript's undefined / null.                      *)

NoRecord == [none |-> TRUE]

NoCoord == <<>>

NoDistance == 0 - 1

(* Distances are compared in km by the code; the model holds hectometres.  *)
Km(n) == n * 10

Abs(x) == IF x < 0 THEN 0 - x ELSE x

Min2(a, b) == IF a < b THEN a ELSE b

Max2(a, b) == IF a > b THEN a ELSE b

----------------------------------------------------------------------------
(* Trigonometry on multiples of 9 degrees, per-mille.                      *)

CosQuarter == [d \in {0, 9, 18, 27, 36, 45, 54, 63, 72, 81, 90} |->
    CASE d = 0 -> 1000 [] d = 9 -> 988 [] d = 18 -> 951 [] d = 27 -> 891
      [] d = 36 -> 809 [] d = 45 -> 707 [] d = 54 -> 588 [] d = 63 -> 454
      [] d = 72 -> 309 [] d = 81 -> 156 [] d = 90 -> 0]

Cos(deg) ==
    LET d == deg % 360 IN
    IF d <= 90 THEN CosQuarter[d]
    ELSE IF d <= 180 THEN 0 - CosQuarter[180 - d]
    ELSE IF d <= 270 THEN 0 - CosQuarter[d - 180]
    ELSE CosQuarter[360 - d]

Sin(deg) == Cos(deg + 270)

(* x * c / 1000 rounded toward zero, c a per-mille factor.                 *)
Times(x, c) ==
    LET p == x * c IN IF p < 0 THEN 0 - ((0 - p) \div 1000) ELSE p \div 1000

(* const kmToDegrees = 1 / 111; radius / 111 *)
KmPerDegree == 111

----------------------------------------------------------------------------
(* Errors.  An Error object carries a message; status is the HTTP status   *)
(* of error.response (0 when the error has no response property, as for   *)
(* every `new Error(...)`), distance the distance its message reports      *)
(* (NoDistance when the message states none), cause the message of the     *)
(* error it wraps.                                                         *)

NewError(msg) == [message |-> msg, status |-> 0, distance |-> NoDistance, cause |-> ""]

MsgTooFar == "Points too far apart for routing"

MsgInvalidCoord == "Invalid coordinates"

MsgZeroCoord == "Coordinates too close to 0,0"

MsgStatus400 == "Invalid request parameters - Status 400"

MsgStatus404 == "Invalid profile or endpoint - Status 404: profile not found"

MsgAuth == "Authentication error: Check API key validity"

MsgCallFailed == "Failed to call OpenRouteService after 3 attempts"

(* error.message of axios for a 5xx answer and for a request that timed    *)
(* out.                                                                    *)
MsgServerError == "Request failed with status code 500"

MsgTimeout == "timeout of 20000ms exceeded"

(* new Error(`Failed to call OpenRouteService after 3 attempts: ${lastError.message}`) *)
CallFailed(lastMessage) == [NewError(MsgCallFailed) EXCEPT !.cause = lastMessage]

----------------------------------------------------------------------------
(* The routing provider.  It answers a request with a path through the     *)
(* requested waypoints, each snapped to the road network (equal request    *)
(* coordinates give equal path points), and a measured distance that the   *)
(* caller cannot predict; or it fails.                                     *)

SnapGrid == 1000

SnapValue(x) == IF x < 0 THEN 0 - (((0 - x) \div SnapGrid) * SnapGrid)
                ELSE (x \div SnapGrid) * SnapGrid

Snap(coord) == <<SnapValue(coord[1]), SnapValue(coord[2])>>

(* Distances the provider may measure, in hectometres. *)
WalkingDistances == {20, 40, 50, 112, 130, 150, 160, 180, 250}

CyclingDistances == {30, 50, 250, 600, 700}

ProviderDistances(profile) ==
    IF profile = "foot-walking" THEN WalkingDistances ELSE CyclingDistances

(* Distances for which the provider may also report segments without a    *)
(* duration.                                                               *)
ZeroDurationDistances(profile) ==
    IF profile = "foot-walking" THEN {112} ELSE {50, 250}

(* Pairs <<segment durations summed, summary.duration>> in seconds the     *)
(* provider may report for a route of the given length: the time at        *)
(* 5 km/h on foot or 20 km/h by bicycle, or segment durations of 0 with or *)
(* without a summary duration.                                             *)
ProviderDurations(profile, dist) ==
    LET real == dist * (IF profile = "foot-walking" THEN 72 ELSE 18)
    IN  {<<real, real>>}
        \cup (IF dist \notin ZeroDurationDistances(profile) THEN {}
              ELSE IF profile = "foot-walking" THEN {<<0, real>>, <<0, 0>>}
              ELSE {<<0, 0>>})

(* What the provider may measure for a route: distance (hectometres),      *)
(* duration and summary duration (seconds), elevation gain (metres).       *)
ProviderMeasurements(profile) ==
    UNION {{[distance |-> d, duration |-> t[1], summaryDuration |-> t[2],
             elevation |-> d \div 5] : t \in ProviderDurations(profile, d)} :
           d \in ProviderDistances(profile)}

(* response.data of a 200 answer: features[0].properties.segments summed   *)
(* (distance, duration, elevation_gain), properties.summary.duration and   *)
(* features[0].geometry.coordinates.                                       *)
ProviderResponse(coordinates, m) ==
    [distance |-> m.distance,
     duration |-> m.duration,
     summaryDuration |-> m.summaryDuration,
     elevation |-> m.elevation,
     coordinates |-> [i \in DOMAIN coordinates |-> Snap(coordinates[i])]]

(* The errors callOpenRouteService throws for a provider failure: 400,     *)
(* 404, 401/403, and a network or 5xx failure that outlasts its retries.   *)
ProviderErrors ==
    {NewError(MsgStatus400), NewError(MsgStatus404), NewError(MsgAuth),
     CallFailed(MsgServerError), CallFailed(MsgTimeout)}

----------------------------------------------------------------------------
(* callOpenRouteService(coordinates, profile, targetDistance, 2)           *)

(* (80 / 111)^2 degrees^2 in units of (1e-4 degree)^2: the square of the   *)
(* straight-line distance above which `distance > 80` holds.               *)
MaxSquaredGap == 51943835

TooFarApart(coordinates) ==
    /\ Len(coordinates) >= 2
    /\ LET dLng == (coordinates[2][1] - coordinates[1][1]) \div 100
           dLat == (coordinates[2][2] - coordinates[1][2]) \div 100
       IN  \/ Abs(dLng) > 10000 \/ Abs(dLat) > 10000    \* a degree apart: 111 km
           \/ dLng * dLng + dLat * dLat > MaxSquaredGap

OutOfRange(coord) ==
    \/ coord[2] < 0 - 90000000 \/ coord[2] > 90000000
    \/ coord[1] < 0 - 180000000 \/ coord[1] > 180000000

NearZero(coord) == Abs(coord[2]) < 100000 /\ Abs(coord[1]) < 100000

(* A validation that looks at the first two coordinates only. *)
LocalValidation_FirstTwo(coordinates) ==
    IF TooFarApart(coordinates) THEN MsgTooFar
    ELSE LET bad == {i \in DOMAIN coordinates :
                        i <= 2 /\ (OutOfRange(coordinates[i]) \/ NearZero(coordinates[i]))}
         IN  IF bad = {} THEN ""
             ELSE LET i == CHOOSE j \in bad : \A k \in bad : j <= k
                  IN  IF OutOfRange(coordinates[i]) THEN MsgInvalidCoord ELSE MsgZeroCoord

(* The message of the error thrown before any request is sent, "" if none. *)
LocalValidation(coordinates) ==
    IF TooFarApart(coordinates) THEN MsgTooFar
    ELSE LET bad == {i \in DOMAIN coordinates :
                        OutOfRange(coordinates[i]) \/ NearZero(coordinates[i])}
         IN  IF bad = {} THEN ""
             ELSE LET i == CHOOSE j \in bad : \A k \in bad : j <= k
                  IN  IF OutOfRange(coordinates[i]) THEN MsgInvalidCoord ELSE MsgZeroCoord

Returned(resp) == [ok |-> TRUE, response |-> resp, error |-> NoRecord]

Thrown(err) == [ok |-> FALSE, response |-> NoRecord, error |-> err]

NoOutcome == [ok |-> FALSE, response |-> NoRecord, error |-> NoRecord]

(* Every way an invocation can end: the returned response.data or the      *)
(* thrown error.                                                           *)
callOpenRouteService(coordinates, profile) ==
    IF LocalValidation(coordinates) # ""
    THEN {Thrown(NewError(LocalValidation(coordinates)))}
    ELSE {Returned(ProviderResponse(coordinates, m)) : m \in ProviderMeasurements(profile)}
         \cup {Thrown(e) : e \in ProviderErrors}

(* response.features[0].properties.segments.reduce(...) / 1000 *)
MeasuredDistance(resp) == resp.distance

----------------------------------------------------------------------------
(* geocodeLocation(country, city)                                          *)

(* Coordinates the geocoder may return, <<lng, lat>>: Tel Aviv, a place    *)
(* next to (0,0), Prague.                                                  *)
GeocodedPlaces == <<
    <<34781800, 32085300>>,
    <<50000, 50000>>,
    <<14437800, 50075500>> >>

NumPlaces == 2

(* The resolved value (coordinates or null, as NoCoord) or the thrown      *)
(* error of geocodeLocation.                                               *)
geocodeLocation ==
    {Returned(GeocodedPlaces[i]) : i \in 1..NumPlaces}
    \cup {Returned(NoCoord),
          Thrown(NewError("Failed to geocode location. Please check country/city name."))}

(* A start that falls back to a default city when geocoding gives nothing. *)
GeocodedStart_Default(geo, notFound) ==
    IF geo.ok /\ geo.response # NoCoord THEN Returned(geo.response)
    ELSE Returned(GeocodedPlaces[3])

(* const center = await geocodeLocation(country, city);                    *)
(* if (!center) throw new Error(notFound)                                  *)
GeocodedStart(geo, notFound) ==
    IF ~geo.ok THEN Thrown(geo.error)
    ELSE IF geo.response = NoCoord THEN Thrown(NewError(notFound))
    ELSE Returned(geo.response)

----------------------------------------------------------------------------
(* generateWalkingRoute and validateAndRetryRoute                          *)

maxRetries == 8

targetDistance == 10

(* Math.max(targetDistance / (2 * Math.PI * 3), 0.5), in millionths of a km *)
baseRadiusKm == Max2((((targetDistance * 1000000) \div 6) * 1000) \div 3142, 500000)

(* Math.min(Math.max(6, Math.floor(targetDistance * 1.2)), 10) *)
numPoints == Min2(Max2(6, (targetDistance * 12) \div 10), 10)

(* A loop that is not closed with a copy of its first point. *)
CircleWaypoints_Open(c, radiusKm) ==
    LET radiusDeg == radiusKm \div KmPerDegree
        point(i) == LET angle == (360 * i) \div numPoints
                    IN  <<c[1] + Times(radiusDeg, Sin(angle)),
                          c[2] + Times(radiusDeg, Cos(angle))>>
    IN  [i \in 1..numPoints |-> point(i - 1)]

(* The waypoint loop: numPoints points on the circle of the given radius   *)
(* around the centre, then the first point again.                          *)
CircleWaypoints(c, radiusKm) ==
    LET radiusDeg == radiusKm \div KmPerDegree
        point(i) == LET angle == (360 * i) \div numPoints
                    IN  <<c[1] + Times(radiusDeg, Sin(angle)),
                          c[2] + Times(radiusDeg, Cos(angle))>>
        ring == [i \in 1..numPoints |-> point(i - 1)]
    IN  Append(ring, <<ring[1][1], ring[1][2]>>)

(* A loop that runs once more than maxRetries allows. *)
WalkLoopGuard_OneMore(a) == a <= maxRetries

(* for (let attempt = 0; attempt < maxRetries; attempt++) *)
WalkLoopGuard(a) == a < maxRetries

(* The ideal test without its upper bound. *)
WalkIdeal_NoUpperBound(d) == d >= Km(5)

(* The ideal test widened to the acceptable range 3-20 km. *)
WalkIdeal_Acceptable(d) == d >= Km(3) /\ d <= Km(20)

(* if (tempDistance >= 5 && tempDistance <= 15) *)
WalkIdeal(d) == d >= Km(5) /\ d <= Km(15)

(* A too-long result that leaves the radius as it was. *)
ShrinkRadius_Kept(r) == r

(* currentRadius *= 0.8 *)
ShrinkRadius(r) == (r * 8) \div 10

(* A too-short result that doubles the radius. *)
GrowRadius_Doubled(r) == r * 2

(* currentRadius *= 1.3 *)
GrowRadius(r) == (r * 13) \div 10

(* if (attempt === maxRetries - 1) throw apiError *)
WalkRethrows(a) == a = maxRetries - 1

(* One iteration of the loop of validateAndRetryRoute on the outcome of    *)
(* its callOpenRouteService call: ctl says whether the function returns    *)
(* the response, throws the error or goes on to the next iteration.        *)
WalkIteration(a, waypoints, radius, c, out) ==
    IF out.ok THEN
        LET tempDistance == MeasuredDistance(out.response) IN
        IF WalkIdeal(tempDistance)
        THEN [ctl |-> "return", waypoints |-> waypoints, radius |-> radius]
        ELSE IF tempDistance > Km(15)
        THEN [ctl |-> "next", waypoints |-> CircleWaypoints(c, ShrinkRadius(radius)),
              radius |-> ShrinkRadius(radius)]
        ELSE IF tempDistance < Km(5)
        THEN [ctl |-> "next", waypoints |-> CircleWaypoints(c, GrowRadius(radius)),
              radius |-> GrowRadius(radius)]
        ELSE [ctl |-> "return", waypoints |-> waypoints, radius |-> radius]
    ELSE IF WalkRethrows(a)
        THEN [ctl |-> "throw", waypoints |-> waypoints, radius |-> radius]
        ELSE [ctl |-> "next", waypoints |-> waypoints, radius |-> radius]

MsgWalkExhausted == "Failed to generate acceptable route after 8 attempts"

MsgWalkTooShort == "Unable to generate a walking route for this location. The best possible route is"

MsgWalkTooLong == "Unable to generate a walking route under 20km for this location. The shortest possible route is"

(* geometry.coordinates.map(coord => ({ lat: coord[1], lng: coord[0] })) *)
ToPath(coordinates) ==
    [i \in DOMAIN coordinates |-> [lat |-> coordinates[i][2], lng |-> coordinates[i][1]]]

(* seconds / 60, in tenths of a minute *)
Minutes(seconds) == seconds \div 6

(* estimatedDurationMinutes of generateWalkingRoute, in tenths of a minute: *)
(* the segment durations, or when they are 0 the summary duration, or when  *)
(* that is missing too finalDistanceKm * 12.                                *)
WalkingDuration(resp) ==
    IF resp.duration # 0 THEN Minutes(resp.duration)
    ELSE IF resp.summaryDuration # 0 THEN Minutes(resp.summaryDuration)
    ELSE MeasuredDistance(resp) * 12

(* The part of generateWalkingRoute after the search returned a response:  *)
(* the final distance check and the route object.                          *)
WalkingRouteOf(resp) ==
    LET finalDistance == MeasuredDistance(resp)
        path == ToPath(resp.coordinates)
    IN  IF finalDistance < Km(3)
        THEN Thrown([NewError(MsgWalkTooShort) EXCEPT !.distance = finalDistance])
        ELSE IF finalDistance > Km(20)
        THEN Thrown([NewError(MsgWalkTooLong) EXCEPT !.distance = finalDistance])
        ELSE Returned([distance |-> finalDistance,
                       estimatedDuration |-> WalkingDuration(resp),
                       elevationGain |-> resp.elevation,
                       path |-> path,
                       startPoint |-> path[1],
                       endPoint |-> path[Len(path)],
                       routeType |-> "walking",
                       isMultiDay |-> FALSE,
                       dayDetails |-> <<>>])

----------------------------------------------------------------------------
(* generateCyclingRoute and generateCityRouteWithRetry                     *)

(* The values Math.random() leads to: day1Angle (degrees), the distance of *)
(* the day-1 end from the start (15-30 km), the turn added to the opposite *)
(* direction for day 2 (-90..90 degrees) and the day-2 distance (15-30).   *)
RandomDraws == <<
    [angle |-> 45,  km |-> 20, turn |-> 45,     km2 |-> 25],
    [angle |-> 180, km |-> 30, turn |-> 0 - 90, km2 |-> 15],
    [angle |-> 306, km |-> 27, turn |-> 0,      km2 |-> 30] >>

NumDraws == 2

(* <<start + distanceDeg * sin(angle), start + distanceDeg * cos(angle)>>   *)
PointAt(from, angle, km) ==
    LET distanceDeg == (km * 1000000) \div KmPerDegree
    IN  <<from[1] + Times(distanceDeg, Sin(angle)), from[2] + Times(distanceDeg, Cos(angle))>>

ProposedDay1Waypoints(start, draw) == <<start, PointAt(start, draw.angle, draw.km)>>

ProposedDay2Waypoints(start, draw) ==
    LET day1End == PointAt(start, draw.angle, draw.km)
    IN  <<day1End, PointAt(day1End, draw.angle + 180 + draw.turn + 360, draw.km2)>>

cyclingProfiles == <<"cycling-road", "cycling-regular">>

ProfileIndex(profile) == CHOOSE i \in DOMAIN cyclingProfiles : cyclingProfiles[i] = profile

(* for (let attempt = 0; attempt < maxRetries; attempt++) *)
CityLoopGuard(a) == a < maxRetries

(* if (actualDistance >= 5 && actualDistance <= 60) *)
CityAccepts(d) == d >= Km(5) /\ d <= Km(60)

(* else if (actualDistance < 5 && attempt < 3) *)
CityExtends(d, a) == d < Km(5) /\ a < 3

(* A reduction that is tried on every attempt. *)
CityReduces_Always(d, a) == d > Km(60)

(* else if (actualDistance > 60 && attempt < 3) *)
CityReduces(d, a) == d > Km(60) /\ a < 3

(* An extension that moves the start to the old end. *)
ExtendEnd_ShiftsStart(cur) ==
    <<cur[2], <<cur[1][1] + (cur[2][1] - cur[1][1]) * 2,
                cur[1][2] + (cur[2][2] - cur[1][2]) * 2>> >>

(* currentWaypoints[1] = [startCoord[0] + lngDiff * 2, startCoord[1] + latDiff * 2] *)
ExtendEnd(cur) ==
    <<cur[1], <<cur[1][1] + (cur[2][1] - cur[1][1]) * 2,
                cur[1][2] + (cur[2][2] - cur[1][2]) * 2>> >>

(* currentWaypoints[1] = [startCoord[0] + lngDiff * 0.6, startCoord[1] + latDiff * 0.6] *)
ReduceEnd(cur) ==
    <<cur[1], <<cur[1][1] + Times(cur[2][1] - cur[1][1], 600),
                cur[1][2] + Times(cur[2][2] - cur[1][2], 600)>> >>

(* apiError.response?.status === 404 && apiError.message.includes('profile not found') *)
IsProfileNotFound(err) == err.status = 404 /\ err.message = MsgStatus404

(* currentWaypoints = [originalStart, [newEndLng, newEndLat]] with         *)
(* baseRadius = 0.05 + attempt * 0.02 and angle = attempt * 45             *)
ReAim(waypoints, a) ==
    LET originalStart == waypoints[1]
        baseRadius == 50000 + a * 20000
        angle == a * 45
    IN  <<originalStart, <<originalStart[1] + Times(baseRadius, Cos(angle)),
                           originalStart[2] + Times(baseRadius, Sin(angle))>> >>

(* if (attempt === maxRetries - 1) throw apiError *)
CityRethrows(a) == a = maxRetries - 1

(* One iteration of the loop of generateCityRouteWithRetry(waypoints, ...) *)
(* on the outcome of its callOpenRouteService call.                        *)
CityIteration(a, waypoints, cur, profile, out) ==
    IF out.ok THEN
        LET actualDistance == MeasuredDistance(out.response) IN
        IF CityAccepts(actualDistance)
        THEN [ctl |-> "return", waypoints |-> cur, profile |-> profile]
        ELSE IF CityExtends(actualDistance, a)
        THEN [ctl |-> "next", waypoints |-> ExtendEnd(cur), profile |-> profile]
        ELSE IF CityReduces(actualDistance, a)
        THEN [ctl |-> "next", waypoints |-> ReduceEnd(cur), profile |-> profile]
        ELSE [ctl |-> "return", waypoints |-> cur, profile |-> profile]
    ELSE IF /\ IsProfileNotFound(out.error)
            /\ ProfileIndex(profile) < Len(cyclingProfiles)
        THEN [ctl |-> "next", waypoints |-> cur,
              profile |-> cyclingProfiles[ProfileIndex(profile) + 1]]
        ELSE [ctl |-> IF CityRethrows(a) THEN "throw" ELSE "next",
              waypoints |-> ReAim(waypoints, a), profile |-> profile]

(* const updatedDay2Waypoints = [day1Waypoints[1], day2Waypoints[1]] *)
UpdatedDay2Waypoints(d1Waypoints, d2Waypoints) == <<d1Waypoints[2], d2Waypoints[2]>>

MsgCyclingFailed == "CYCLING_ROUTE_FAILED: Unable to generate city-to-city cycling route"

MsgCityExhausted == "CYCLING_ROUTE_FAILED: Unable to generate route after 8 attempts"

(* catch (error) { throw new Error(`CYCLING_ROUTE_FAILED: ... ${error.message} ...`) } *)
CyclingFailure(err) == [NewError(MsgCyclingFailed) EXCEPT !.cause = err.message]

(* One entry of dayDetails. *)
DayDetail(n, result) ==
    LET path == ToPath(result.response.coordinates)
    IN  [day |-> n,
         distance |-> result.actualDistance,
         duration |-> Minutes(result.response.duration),
         startPoint |-> path[1],
         endPoint |-> path[Len(path)],
         path |-> path]

(* The two days' segment durations whatever they add up to. *)
CyclingDuration_Calculated(totalDistance, totalDurationSeconds) ==
    Minutes(totalDurationSeconds)

(* totalDuration of generateCyclingRoute, in tenths of a minute: the two   *)
(* days' segment durations, replaced by the time at 20 km/h when they add  *)
(* up to less than 10 minutes for more than 20 km.                         *)
CyclingDuration(totalDistance, totalDurationSeconds) ==
    LET calculatedDurationMinutes == Minutes(totalDurationSeconds)
        estimatedDurationMinutes == totalDistance * 3
    IN  IF calculatedDurationMinutes < 100 /\ totalDistance > Km(20)
        THEN estimatedDurationMinutes
        ELSE calculatedDurationMinutes

(* A route object built from the day-1 result alone. *)
CyclingRouteOf_Day1Only(d1, d2) ==
    LET path1 == ToPath(d1.response.coordinates)
    IN  [distance |-> d1.actualDistance,
         estimatedDuration |-> Minutes(d1.response.duration),
         elevationGain |-> d1.response.elevation,
         path |-> path1,
         startPoint |-> path1[1],
         endPoint |-> path1[Len(path1)],
         routeType |-> "cycling",
         isMultiDay |-> TRUE,
         dayDetails |-> <<DayDetail(1, d1)>>]

(* The route object generateCyclingRoute builds from the two day results.  *)
CyclingRouteOf(d1, d2) ==
    LET path1 == ToPath(d1.response.coordinates)
        path2 == ToPath(d2.response.coordinates)
    IN  [distance |-> d1.actualDistance + d2.actualDistance,
         estimatedDuration |->
            CyclingDuration(d1.actualDistance + d2.actualDistance,
                            d1.response.duration + d2.response.duration),
         elevationGain |-> d1.response.elevation + d2.response.elevation,
         path |-> path1 \o path2,
         startPoint |-> path1[1],
         endPoint |-> path2[Len(path2)],
         routeType |-> "cycling",
         isMultiDay |-> TRUE,
         dayDetails |-> <<DayDetail(1, d1), DayDetail(2, d2)>>]

----------------------------------------------------------------------------
(* The catch block of POST /api/routes/generate                            *)

MsgGenerateFailed == "Failed to generate route. Please try a different location or route type."

(* error.message.includes('exceed'): among the messages generateRoute      *)
(* throws, only the one that quotes the timeout message of axios.          *)
IncludesExceed(err) == err.cause = MsgTimeout

(* error.message.includes('Unable to generate') *)
IncludesUnableToGenerate(err) ==
    err.message \in {MsgWalkTooShort, MsgWalkTooLong, MsgCyclingFailed, MsgCityExhausted}

(* res.status(500).json({ status: 'error', message: errorMessage }); an    *)
(* error message that is passed on keeps the text it quotes (cause) and    *)
(* the distance it names.                                                  *)
GenerateErrorResponse(err) ==
    IF IncludesExceed(err) \/ IncludesUnableToGenerate(err)
    THEN [status |-> 500, message |-> err.message, cause |-> err.cause,
          distance |-> err.distance]
    ELSE [status |-> 500, message |-> MsgGenerateFailed, cause |-> "",
          distance |-> NoDistance]

----------------------------------------------------------------------------
(* Bookkeeping of what a search has seen: the number of responses, the     *)
(* number of them with a distance of 5-15 km, and the smallest and largest *)
(* measured distance.                                                      *)

NothingObserved ==
    [responses |-> 0, ideal |-> 0, min |-> NoDistance, max |-> NoDistance,
     tooLong |-> 0, tooShort |-> 0]

Observe(o, out) ==
    IF ~out.ok THEN o
    ELSE LET d == out.response.distance
         IN  [responses |-> o.responses + 1,
              ideal |-> o.ideal + (IF d >= Km(5) /\ d <= Km(15) THEN 1 ELSE 0),
              min |-> IF o.min = NoDistance THEN d ELSE Min2(o.min, d),
              max |-> IF o.max = NoDistance THEN d ELSE Max2(o.max, d),
              tooLong |-> o.tooLong,
              tooShort |-> o.tooShort]

(* The same for a walking search, which also counts the results above      *)
(* 15 km and the results below 5 km.                                       *)
ObserveWalking(o, out) ==
    IF ~out.ok THEN o
    ELSE LET d == out.response.distance
         IN  [Observe(o, out) EXCEPT
                 !.tooLong = o.tooLong + (IF d > Km(15) THEN 1 ELSE 0),
                 !.tooShort = o.tooShort + (IF d < Km(5) THEN 1 ELSE 0)]

----------------------------------------------------------------------------
SearchInit ==
    /\ pc = "start"
    /\ geocoded = NoOutcome
    /\ center = NoCoord
    /\ day = 0
    /\ attempt = 0
    /\ currentWaypoints = <<>>
    /\ currentRadius = 0
    /\ currentProfile = ""
    /\ day1Waypoints = <<>>
    /\ day2Waypoints = <<>>
    /\ day1Result = NoRecord
    /\ day1AcceptedEnd = NoCoord
    /\ calls = 0
    /\ observed = NothingObserved
    /\ lastRequest = NoRecord
    /\ lastOutcome = NoOutcome
    /\ route = NoRecord
    /\ failure = NoRecord

(* No invocation of callOpenRouteService is under way. *)
ORSIdle ==
    /\ apiKey = TRUE
    /\ orsCoordinates = <<>>
    /\ orsProfile = ""
    /\ orsPc = "idle"
    /\ orsAttempt = 0
    /\ lastError = ""
    /\ requests = <<>>
    /\ slots = 0
    /\ answers = <<>>
    /\ backoffs = <<>>
    /\ orsOutcome = NoOutcome

(* No caller is using the rate limiter. *)
LimiterIdle ==
    /\ now = 0
    /\ config = [requests |-> <<>>, lastRequest |-> 0]
    /\ callers = <<>>
    /\ sentLog = <<>>

(* No request has reached routeGenerationLimiter. *)
GenLimiterIdle ==
    /\ genNow = 0
    /\ arrived = 0
    /\ routeRequests = <<>>
    /\ passed = <<>>
    /\ genResponse = NoRecord

(* No route is stored and no request is writing the collection. *)
StoreIdle ==
    /\ store = {}
    /\ nextId = 1
    /\ savers = <<>>
    /\ storeStatus = 0

Init ==
    /\ routeType \in {"walking", "cycling"}
    /\ SearchInit
    /\ ORSIdle
    /\ LimiterIdle
    /\ GenLimiterIdle
    /\ StoreIdle

cyclingVars == <<day, day1Waypoints, day2Waypoints, day1Result, day1AcceptedEnd>>

(* generateWalkingRoute up to the first provider call: geocoding, the      *)
(* initial radius and the initial waypoint loop.                           *)
WalkStart ==
    /\ pc = "start" /\ routeType = "walking"
    /\ \E geo \in geocodeLocation :
        LET start == GeocodedStart(geo, "Could not find city/country coordinates")
        IN  /\ geocoded' = geo
            /\ IF ~start.ok
               THEN /\ failure' = start.error
                    /\ pc' = "done"
                    /\ UNCHANGED <<center, currentWaypoints, currentRadius, currentProfile>>
               ELSE /\ center' = start.response
                    /\ currentRadius' = baseRadiusKm
                    /\ currentWaypoints' = CircleWaypoints(start.response, baseRadiusKm)
                    /\ currentProfile' = "foot-walking"
                    /\ pc' = "walkSearch"
                    /\ UNCHANGED failure
    /\ UNCHANGED <<routeType, attempt, calls, observed, lastRequest, lastOutcome, route>>
    /\ UNCHANGED cyclingVars
    /\ UNCHANGED outsideSearch

(* One iteration of validateAndRetryRoute: the call to the provider, the   *)
(* evaluation of its outcome and, when the search ends here, the rest of   *)
(* generateWalkingRoute.                                                   *)
WalkAttempt ==
    /\ pc = "walkSearch" /\ WalkLoopGuard(attempt)
    /\ \E out \in callOpenRouteService(currentWaypoints, currentProfile) :
        LET it == WalkIteration(attempt, currentWaypoints, currentRadius, center, out)
            final == WalkingRouteOf(out.response)
        IN  /\ calls' = calls + 1
            /\ observed' = ObserveWalking(observed, out)
            /\ lastRequest' = [coordinates |-> currentWaypoints, profile |-> currentProfile]
            /\ lastOutcome' = out
            /\ currentWaypoints' = it.waypoints
            /\ currentRadius' = it.radius
            /\ attempt' = IF it.ctl = "next" THEN attempt + 1 ELSE attempt
            /\ CASE it.ctl = "return" ->
                      /\ pc' = "done"
                      /\ route' = IF final.ok THEN final.response ELSE NoRecord
                      /\ failure' = IF final.ok THEN NoRecord ELSE final.error
                 [] it.ctl = "throw" ->
                      /\ pc' = "done"
                      /\ failure' = out.error
                      /\ UNCHANGED route
                 [] it.ctl = "next" /\ WalkLoopGuard(attempt + 1) ->
                      UNCHANGED <<pc, route, failure>>
                 [] OTHER ->
                      /\ pc' = "done"
                      /\ failure' = NewError(MsgWalkExhausted)
                      /\ UNCHANGED route
    /\ UNCHANGED <<routeType, geocoded, center, currentProfile>>
    /\ UNCHANGED cyclingVars
    /\ UNCHANGED outsideSearch

(* generateCyclingRoute up to the first provider call: geocoding, the      *)
(* random proposal of the two days' waypoints and the start of the day-1   *)
(* search.                                                                 *)
CyclingStart ==
    /\ pc = "start" /\ routeType = "cycling"
    /\ \E geo \in geocodeLocation, i \in 1..NumDraws :
        LET start == GeocodedStart(geo, "Could not find starting city coordinates")
        IN  /\ geocoded' = geo
            /\ IF ~start.ok
               THEN /\ failure' = start.error
                    /\ pc' = "done"
                    /\ UNCHANGED <<center, day, currentWaypoints, currentProfile,
                                   day1Waypoints, day2Waypoints>>
               ELSE /\ center' = start.response
                    /\ day1Waypoints' = ProposedDay1Waypoints(start.response, RandomDraws[i])
                    /\ day2Waypoints' = ProposedDay2Waypoints(start.response, RandomDraws[i])
                    /\ day' = 1
                    /\ currentWaypoints' = ProposedDay1Waypoints(start.response, RandomDraws[i])
                    /\ currentProfile' = cyclingProfiles[1]
                    /\ pc' = "citySearch"
                    /\ UNCHANGED failure
    /\ UNCHANGED <<routeType, attempt, currentRadius, day1Result, day1AcceptedEnd,
                   calls, observed, lastRequest, lastOutcome, route>>
    /\ UNCHANGED outsideSearch

(* The waypoints argument of the running generateCityRouteWithRetry call.  *)
SearchWaypoints ==
    IF day = 1 THEN day1Waypoints ELSE UpdatedDay2Waypoints(day1Waypoints, day2Waypoints)

(* One iteration of generateCityRouteWithRetry for the running day: the    *)
(* call to the provider, the evaluation of its outcome and what follows in *)
(* generateCyclingRoute when the day's search ends here (the start of the  *)
(* day-2 search, the route object, or the failure).                        *)
CityAttempt ==
    /\ pc = "citySearch" /\ CityLoopGuard(attempt)
    /\ \E out \in callOpenRouteService(currentWaypoints, currentProfile) :
        LET it == CityIteration(attempt, SearchWaypoints, currentWaypoints, currentProfile, out)
            result == [response |-> out.response,
                       actualDistance |-> MeasuredDistance(out.response)]
        IN  /\ calls' = IF it.ctl = "return" /\ day = 1 THEN 0 ELSE calls + 1
            /\ observed' = IF it.ctl = "return" /\ day = 1 THEN NothingObserved
                            ELSE Observe(observed, out)
            /\ lastRequest' = [coordinates |-> currentWaypoints, profile |-> currentProfile]
            /\ lastOutcome' = out
            /\ CASE it.ctl = "return" /\ day = 1 ->
                      /\ day1Result' = result
                      /\ day1AcceptedEnd' = currentWaypoints[2]
                      /\ day' = 2
                      /\ attempt' = 0
                      /\ currentWaypoints' = UpdatedDay2Waypoints(day1Waypoints, day2Waypoints)
                      /\ currentProfile' = cyclingProfiles[1]
                      /\ UNCHANGED <<pc, route, failure>>
                 [] it.ctl = "return" /\ day = 2 ->
                      /\ route' = CyclingRouteOf(day1Result, result)
                      /\ pc' = "done"
                      /\ UNCHANGED <<day, attempt, currentWaypoints, currentProfile,
                                     day1Result, day1AcceptedEnd, failure>>
                 [] it.ctl = "throw" ->
                      /\ failure' = CyclingFailure(out.error)
                      /\ pc' = "done"
                      /\ currentWaypoints' = it.waypoints
                      /\ UNCHANGED <<day, attempt, currentProfile, day1Result,
                                     day1AcceptedEnd, route>>
                 [] it.ctl = "next" /\ CityLoopGuard(attempt + 1) ->
                      /\ attempt' = attempt + 1
                      /\ currentWaypoints' = it.waypoints
                      /\ currentProfile' = it.profile
                      /\ UNCHANGED <<pc, day, day1Result, day1AcceptedEnd, route, failure>>
                 [] OTHER ->
                      /\ failure' = CyclingFailure(NewError(MsgCityExhausted))
                      /\ pc' = "done"
                      /\ attempt' = attempt + 1
                      /\ currentWaypoints' = it.waypoints
                      /\ currentProfile' = it.profile
                      /\ UNCHANGED <<day, day1Result, day1AcceptedEnd, route>>
    /\ UNCHANGED <<routeType, geocoded, center, currentRadius, day1Waypoints, day2Waypoints>>
    /\ UNCHANGED outsideSearch

Next == WalkStart \/ WalkAttempt \/ CyclingStart \/ CityAttempt

Spec == Init /\ [][Next]_vars

----------------------------------------------------------------------------
(* One invocation of callOpenRouteService(coordinates, profile, _, 2),     *)
(* statement by statement, with makeRateLimitedRequest (rateLimiter.js)    *)
(* around each axios.post.                                                 *)

orsMaxRetries == 2

MsgNoKey == "OPENROUTESERVICE_API_KEY not configured in environment variables"

MsgTooManyRequests == "Request failed with status code 429"

(* Argument lists: a pair 20 km apart, a walking loop, a pair 100 km       *)
(* apart, triples whose last point is 100 km away, beyond the pole or next *)
(* to (0,0), a first point beyond the date line, two points next to (0,0), *)
(* and a pair across latitude 90.                                          *)
SampleCoordinates == <<
    <<GeocodedPlaces[1], PointAt(GeocodedPlaces[1], 45, 20)>>,
    CircleWaypoints(GeocodedPlaces[1], baseRadiusKm),
    <<GeocodedPlaces[1], PointAt(GeocodedPlaces[1], 0, 100)>>,
    <<GeocodedPlaces[1], PointAt(GeocodedPlaces[1], 45, 20), PointAt(GeocodedPlaces[1], 0, 100)>>,
    <<GeocodedPlaces[1], PointAt(GeocodedPlaces[1], 45, 20), <<34781800, 91000000>> >>,
    <<GeocodedPlaces[1], PointAt(GeocodedPlaces[1], 45, 20), <<0 - 50000, 50000>> >>,
    << <<181000000, 32085300>>, GeocodedPlaces[1]>>,
    << <<50000, 50000>>, <<0 - 50000, 50000>> >>,
    << <<10000000, 89900000>>, <<10000000, 90100000>> >> >>

(* What one axios.post may lead to: a 200 answer with a route, an answer   *)
(* with an error status, or no answer (status 0: network error, timeout).  *)
HttpErrorStatuses == {0, 400, 401, 403, 404, 429, 500}

HttpAnswers(profile) ==
    {[status |-> 200, data |-> m] : m \in ProviderMeasurements(profile)}
    \cup {[status |-> st, data |-> NoRecord] : st \in HttpErrorStatuses}

(* error.message of the error axios rejects with *)
AxiosMessage(status) ==
    IF status = 0 THEN MsgTimeout
    ELSE IF status = 429 THEN MsgTooManyRequests
    ELSE MsgServerError

(* A loop that sends once more than maxRetries allows. *)
ORSLoopGuard_OneMore(a) == a <= orsMaxRetries + 1

(* while (attempt <= maxRetries) *)
ORSLoopGuard(a) == a <= orsMaxRetries

(* Math.min(Math.pow(2, attempt) * 500, 3000) *)
backoffDelay(a) == Min2((2 ^ a) * 500, 3000)

(* The errors the catch block throws at once, by status. *)
NotRetried(status) ==
    IF status = 400 THEN NewError(MsgStatus400)
    ELSE IF status = 404 THEN NewError(MsgStatus404)
    ELSE IF status \in {401, 403} THEN NewError(MsgAuth)
    ELSE NoRecord

(* The arguments of an invocation. *)
InitORS ==
    /\ SearchInit
    /\ apiKey \in BOOLEAN
    /\ \E i \in DOMAIN SampleCoordinates : orsCoordinates = SampleCoordinates[i]
    /\ orsProfile \in {"foot-walking", "cycling-road"}
    /\ routeType = (IF orsProfile = "foot-walking" THEN "walking" ELSE "cycling")
    /\ orsPc = "validate"
    /\ orsAttempt = 0
    /\ lastError = ""
    /\ requests = <<>>
    /\ slots = 0
    /\ answers = <<>>
    /\ backoffs = <<>>
    /\ orsOutcome = NoOutcome
    /\ LimiterIdle
    /\ GenLimiterIdle
    /\ StoreIdle

(* The API key check and the validation of the coordinates. *)
ORSValidate ==
    /\ orsPc = "validate"
    /\ IF ~apiKey
       THEN orsPc' = "done" /\ orsOutcome' = Thrown(NewError(MsgNoKey))
       ELSE IF LocalValidation(orsCoordinates) # ""
       THEN /\ orsPc' = "done"
            /\ orsOutcome' = Thrown(NewError(LocalValidation(orsCoordinates)))
       ELSE orsPc' = "request" /\ UNCHANGED orsOutcome
    /\ UNCHANGED <<apiKey, orsCoordinates, orsProfile, orsAttempt, lastError,
                   requests, slots, answers, backoffs>>
    /\ UNCHANGED outsideORS

(* addRequestDelay, then requestFn(): the body is sent and answered. *)
Sent(ans) ==
    /\ slots' = slots + 1
    /\ requests' = Append(requests, [coordinates |-> orsCoordinates, profile |-> orsProfile])
    /\ answers' = Append(answers, ans.status)

(* return response.data *)
ReturnData(ans) ==
    /\ orsPc' = "done"
    /\ orsOutcome' = Returned(ProviderResponse(orsCoordinates, ans.data))
    /\ UNCHANGED <<orsAttempt, lastError, backoffs>>

(* The catch block of callOpenRouteService up to its wait. *)
Caught(status) ==
    /\ orsAttempt' = orsAttempt + 1
    /\ lastError' = AxiosMessage(status)
    /\ IF NotRetried(status) # NoRecord
       THEN /\ orsPc' = "done"
            /\ orsOutcome' = Thrown(NotRetried(status))
            /\ UNCHANGED backoffs
       ELSE /\ orsPc' = "backoff"
            /\ backoffs' = Append(backoffs, backoffDelay(orsAttempt + 1))
            /\ UNCHANGED orsOutcome

(* One pass of the while loop up to its first await that can fail:         *)
(* makeRateLimitedRequest sends the request; a 429 answer is kept by       *)
(* makeRateLimitedRequest, every other failure reaches the catch block.    *)
ORSRequest ==
    /\ orsPc = "request" /\ ORSLoopGuard(orsAttempt)
    /\ \E ans \in HttpAnswers(orsProfile) :
        /\ Sent(ans)
        /\ IF ans.status = 200 THEN ReturnData(ans)
           ELSE IF ans.status = 429
           THEN orsPc' = "retry429" /\ UNCHANGED <<orsAttempt, lastError, backoffs, orsOutcome>>
           ELSE Caught(ans.status)
    /\ UNCHANGED <<apiKey, orsCoordinates, orsProfile>>
    /\ UNCHANGED outsideORS

(* makeRateLimitedRequest after a 429 answer and its wait of 30 s:         *)
(* addRequestDelay and requestFn() once more; a failure of this request    *)
(* reaches the catch block of callOpenRouteService.                        *)
ORSRetry429 ==
    /\ orsPc = "retry429"
    /\ \E ans \in HttpAnswers(orsProfile) :
        /\ Sent(ans)
        /\ IF ans.status = 200 THEN ReturnData(ans) ELSE Caught(ans.status)
    /\ UNCHANGED <<apiKey, orsCoordinates, orsProfile>>
    /\ UNCHANGED outsideORS

(* After the wait of backoffDelay ms: the loop condition, and the throw    *)
(* behind the loop.                                                        *)
ORSBackoff ==
    /\ orsPc = "backoff"
    /\ IF ORSLoopGuard(orsAttempt)
       THEN orsPc' = "request" /\ UNCHANGED orsOutcome
       ELSE orsPc' = "done" /\ orsOutcome' = Thrown(CallFailed(lastError))
    /\ UNCHANGED <<apiKey, orsCoordinates, orsProfile, orsAttempt, lastError,
                   requests, slots, answers, backoffs>>
    /\ UNCHANGED outsideORS

NextORS == ORSValidate \/ ORSRequest \/ ORSRetry429 \/ ORSBackoff

SpecORS == InitORS /\ [][NextORS]_vars

----------------------------------------------------------------------------
(* rateLimiter.js: makeRateLimitedRequest('openRouteService', requestFn)   *)
(* called by several callers that run concurrently (route searches of      *)
(* different HTTP requests), statement by statement between awaits.  Time  *)
(* is Date.now() in ms and passes while some caller sleeps.                *)

maxRequests == 40

windowMs == 60 * 1000

delayMs == 1500

NumCallers == 2

MaxCalls == 2

Callers == 1..NumCallers

(* Date.now() when the callers arrive. *)
StartTime == 1000000

(* config after n earlier requests sent delayMs apart, the last of them    *)
(* half a second before StartTime.                                         *)
EarlierRequests(n) == [k \in 1..n |-> StartTime - 500 - (n - k) * delayMs]

(* The earlier requests the callers may find: none, 39 or 40. *)
Histories == {0, maxRequests - 1, maxRequests}

RECURSIVE MinOf(_)
MinOf(seq) ==
    IF Len(seq) = 1 THEN seq[1] ELSE Min2(seq[1], MinOf(Tail(seq)))

(* config.requests.filter(timestamp => now - timestamp < config.windowMs) *)
CleanOld(reqs, t) == SelectSeq(reqs, LAMBDA stamp : t - stamp < windowMs)

(* canMakeRequest: config.requests.length < config.maxRequests *)
UnderLimit(reqs) == Len(reqs) < maxRequests

(* addRequestDelay: delayNeeded = config.delayMs - (now - config.lastRequest) *)
delayNeeded(cfg, t) == delayMs - (t - cfg.lastRequest)

(* A slot that records nothing. *)
Acquire_Nothing(cfg, t) == cfg

(* config.lastRequest = Date.now(); config.requests.push(config.lastRequest) *)
Acquire(cfg, t) == [requests |-> Append(cfg.requests, t), lastRequest |-> t]

(* requestFn(): the request goes out at time t while config is cfg. *)
LogSend(log, cfg, t) ==
    Append(log, [time |-> t,
                 lastRequest |-> cfg.lastRequest,
                 recorded |-> cfg.requests # <<>> /\ cfg.requests[Len(cfg.requests)] = t])

(* Calls of makeRateLimitedRequest started so far by the callers in set. *)
RECURSIVE StartedCalls(_)
StartedCalls(set) ==
    IF set = {} THEN 0
    ELSE LET c == CHOOSE d \in set : TRUE
         IN  callers[c].calls + (IF callers[c].pc = "idle" THEN 0 ELSE 1)
                + StartedCalls(set \ {c})

Sleeping(c) == callers[c].pc \in {"rateWait", "delayWait", "retryWait"}

InitLimiter ==
    /\ routeType = "walking"
    /\ SearchInit
    /\ ORSIdle
    /\ GenLimiterIdle
    /\ StoreIdle
    /\ now = StartTime
    /\ \E n \in Histories :
        /\ config = [requests |-> EarlierRequests(n),
                     lastRequest |-> IF n = 0 THEN 0 ELSE EarlierRequests(n)[n]]
        /\ sentLog = [k \in 1..n |-> [time |-> EarlierRequests(n)[k],
                                      lastRequest |-> EarlierRequests(n)[k],
                                      recorded |-> TRUE]]
    /\ callers = [c \in Callers |-> [pc |-> "idle", wake |-> 0, calls |-> 0, retried |-> FALSE]]

(* makeRateLimitedRequest up to the end of waitForRateLimit's loop test:   *)
(* on entry, and again after each of its sleeps.                           *)
WaitForRateLimit(c) ==
    /\ \/ callers[c].pc = "idle" /\ StartedCalls(Callers) < MaxCalls
       \/ callers[c].pc = "rateWait" /\ callers[c].wake <= now
    /\ LET cleaned == CleanOld(config.requests, now)
           waitTime == windowMs - (now - MinOf(cleaned))
       IN  /\ config' = [config EXCEPT !.requests = cleaned]
           /\ IF ~UnderLimit(cleaned) /\ waitTime > 0
              THEN callers' = [callers EXCEPT ![c].pc = "rateWait",
                                              ![c].wake = now + Min2(waitTime, 5000)]
              ELSE callers' = [callers EXCEPT ![c].pc = "delay"]
    /\ UNCHANGED <<now, sentLog>>
    /\ UNCHANGED outsideLimiter

(* addRequestDelay up to its sleep, or without one up to requestFn(). *)
AddRequestDelay(c) ==
    /\ callers[c].pc = "delay"
    /\ IF now - config.lastRequest < delayMs
       THEN /\ callers' = [callers EXCEPT ![c].pc = "delayWait",
                                          ![c].wake = now + delayNeeded(config, now)]
            /\ UNCHANGED <<config, sentLog>>
       ELSE /\ config' = Acquire(config, now)
            /\ sentLog' = LogSend(sentLog, Acquire(config, now), now)
            /\ callers' = [callers EXCEPT ![c].pc = "inFlight"]
    /\ UNCHANGED now
    /\ UNCHANGED outsideLimiter

(* addRequestDelay after its sleep, up to requestFn(). *)
DelayElapsed(c) ==
    /\ callers[c].pc = "delayWait" /\ callers[c].wake <= now
    /\ config' = Acquire(config, now)
    /\ sentLog' = LogSend(sentLog, Acquire(config, now), now)
    /\ callers' = [callers EXCEPT ![c].pc = "inFlight"]
    /\ UNCHANGED now
    /\ UNCHANGED outsideLimiter

(* The answer to the request: makeRateLimitedRequest returns the result or *)
(* throws the error, or after a first answer 429 starts its 30 s sleep.    *)
Respond(c) ==
    /\ callers[c].pc = "inFlight"
    /\ \E status \in {200, 429, 500} :
        IF status = 429 /\ ~callers[c].retried
        THEN callers' = [callers EXCEPT ![c].pc = "retryWait", ![c].wake = now + 30000]
        ELSE callers' = [callers EXCEPT ![c].pc = "idle", ![c].retried = FALSE,
                                        ![c].calls = callers[c].calls + 1]
    /\ UNCHANGED <<now, config, sentLog>>
    /\ UNCHANGED outsideLimiter

(* After the 30 s sleep: config.requests = [], config.lastRequest = 0,     *)
(* addRequestDelay and requestFn() once more.                              *)
RetryAfter429(c) ==
    /\ callers[c].pc = "retryWait" /\ callers[c].wake <= now
    /\ LET reset == [requests |-> <<>>, lastRequest |-> 0] IN
       IF now - reset.lastRequest < delayMs
       THEN /\ config' = reset
            /\ callers' = [callers EXCEPT ![c].pc = "delayWait", ![c].retried = TRUE,
                                          ![c].wake = now + delayNeeded(reset, now)]
            /\ UNCHANGED sentLog
       ELSE /\ config' = Acquire(reset, now)
            /\ sentLog' = LogSend(sentLog, Acquire(reset, now), now)
            /\ callers' = [callers EXCEPT ![c].pc = "inFlight", ![c].retried = TRUE]
    /\ UNCHANGED now
    /\ UNCHANGED outsideLimiter

(* Time passes until the next timer is due. *)
Advance ==
    /\ \E c \in Callers : Sleeping(c)
    /\ \A c \in Callers : Sleeping(c) => callers[c].wake > now
    /\ \E c \in Callers :
        /\ Sleeping(c)
        /\ \A d \in Callers : Sleeping(d) => callers[c].wake <= callers[d].wake
        /\ now' = callers[c].wake
    /\ UNCHANGED <<config, callers, sentLog>>
    /\ UNCHANGED outsideLimiter

NextLimiter ==
    \/ \E c \in Callers : WaitForRateLimit(c)
    \/ \E c \in Callers : AddRequestDelay(c)
    \/ \E c \in Callers : DelayElapsed(c)
    \/ \E c \in Callers : Respond(c)
    \/ \E c \in Callers : RetryAfter429(c)
    \/ Advance

SpecLimiter == InitLimiter /\ [][NextLimiter]_vars

----------------------------------------------------------------------------
(* rateLimiter.js: routeGenerationLimiter, the middleware of POST          *)
(* /generate, for the requests of one session whose routeRequests list is  *)
(* kept between requests.  The middleware has no await: each request is    *)
(* one step.                                                               *)

genMaxRequests == 3

genWindowMs == 5 * 60 * 1000

(* The number of requests the session sends. *)
MaxArrivals == 6

(* The time between one request and the next, in ms. *)
Gaps == {0, 1, 1000, 150000, 299999, 300000}

(* Math.ceil(x / 1000) *)
CeilSeconds(x) == -((-x) \div 1000)

(* userRequests.filter(timestamp => now - timestamp < windowMs) *)
RecentRequests(userRequests, t) ==
    SelectSeq(userRequests, LAMBDA stamp : t - stamp < genWindowMs)

(* A limit that lets one request more through. *)
LimitReached_Above(recentRequests) == Len(recentRequests) > genMaxRequests

(* recentRequests.length >= maxRequests *)
LimitReached(recentRequests) == Len(recentRequests) >= genMaxRequests

InitGen ==
    /\ routeType = "walking"
    /\ SearchInit
    /\ ORSIdle
    /\ LimiterIdle
    /\ StoreIdle
    /\ genNow = StartTime
    /\ arrived = 0
    /\ routeRequests = <<>>
    /\ passed = <<>>
    /\ genResponse = NoRecord

(* One request reaches the middleware, gap ms after the one before. *)
RouteGenerationLimiter ==
    /\ arrived < MaxArrivals
    /\ arrived' = arrived + 1
    /\ \E gap \in Gaps : genNow' = genNow + gap
    /\ LET recentRequests == RecentRequests(routeRequests, genNow') IN
       IF LimitReached(recentRequests)
       THEN /\ genResponse' =
                 [status |-> 429,
                  retryAfter |-> CeilSeconds(recentRequests[1] + genWindowMs - genNow')]
            /\ UNCHANGED <<routeRequests, passed>>
       ELSE /\ genResponse' = [status |-> 200, retryAfter |-> 0]
            /\ routeRequests' = Append(recentRequests, genNow')
            /\ passed' = Append(passed, genNow')
    /\ UNCHANGED outsideGen

NextGen == RouteGenerationLimiter

SpecGen == InitGen /\ [][NextGen]_vars

----------------------------------------------------------------------------
(* routes.js: POST /save, PUT /:id and DELETE /:id on the routes           *)
(* collection.  POST /save awaits Route.findOne before it calls            *)
(* saveRouteToDb, so the requests of several savers interleave between     *)
(* the two; PUT and DELETE each change the collection in one write.        *)
(* Distances are in hectometres, points <<lng, lat>> in micro-degrees.     *)
(* The bodies carry no dayDetails and a valid estimatedDuration.           *)

NumSavers == 2

MaxRoutes == 2

Savers == 1..NumSavers

(* The user who saves, and another user. *)
Users == {1, 2}

Names == {"Loop", "Tour"}

StorePoint(offset) == <<34780000, 32080000 + offset>>

(* const threshold = 0.001, in micro-degrees *)
CircularThreshold == 1000

(* The request bodies of POST /save that pass the express-validator chain. *)
SaveBodies ==
    [name : Names,
     routeType : {"walking", "cycling"},
     distance : {Km(5), Km(16), Km(61)},
     startPoint : {StorePoint(0)},
     endPoint : {StorePoint(0), StorePoint(CircularThreshold)}]

(* routeType === 'walking' && (distance < 5 || distance > 15) *)
WalkingOutOfRange(body) ==
    body.routeType = "walking" /\ (body.distance < Km(5) \/ body.distance > Km(15))

(* routeType === 'cycling', no dayDetails: distance > 60 *)
CyclingOutOfRange(body) ==
    body.routeType = "cycling" /\ body.distance > Km(60)

IsCircular(startPoint, endPoint) ==
    /\ Abs(startPoint[2] - endPoint[2]) < CircularThreshold
    /\ Abs(startPoint[1] - endPoint[1]) < CircularThreshold

(* The business checks of POST /save before Route.findOne. *)
SaveRejected(body) ==
    \/ WalkingOutOfRange(body)
    \/ CyclingOutOfRange(body)
    \/ body.routeType = "walking" /\ ~IsCircular(body.startPoint, body.endPoint)

(* Route.findOne({ userId, name }) *)
FindOne(userId, name) == {r \in store : r.userId = userId /\ r.name = name}

(* Route.findById(id) *)
FindById(id) == {r \in store : r.id = id}

(* routeSchema's validators on the modelled paths: distance min 0.1 km,    *)
(* routeType enum.                                                         *)
SchemaValid(doc) ==
    /\ doc.distance >= 1
    /\ doc.routeType \in {"walking", "cycling"}

(* The bodies of PUT /:id: any keys; here one key each.  "", -1 and <<>>   *)
(* stand for a key that is absent.                                         *)
NoUpdates == [name |-> "", routeType |-> "", distance |-> -1, endPoint |-> <<>>]

UpdateBodies ==
    {[NoUpdates EXCEPT !.name = n] : n \in Names}
        \cup {[NoUpdates EXCEPT !.routeType = "walking"]}
        \cup {[NoUpdates EXCEPT !.distance = d] : d \in {0, Km(16)}}
        \cup {[NoUpdates EXCEPT !.endPoint = StorePoint(CircularThreshold)]}

(* Object.keys(updates).forEach(key => { route[key] = updates[key]; }) *)
ApplyUpdates(doc, updates) ==
    [doc EXCEPT !.name = IF updates.name # "" THEN updates.name ELSE @,
                !.routeType = IF updates.routeType # "" THEN updates.routeType ELSE @,
                !.distance = IF updates.distance # -1 THEN updates.distance ELSE @,
                !.endPoint = IF updates.endPoint # <<>> THEN updates.endPoint ELSE @]

NoBody == [name |-> "", routeType |-> "", distance |-> 0,
           startPoint |-> <<>>, endPoint |-> <<>>]

SaversChecked == {s \in Savers : savers[s].pc = "checked"}

InitStore ==
    /\ routeType = "walking"
    /\ SearchInit
    /\ ORSIdle
    /\ LimiterIdle
    /\ GenLimiterIdle
    /\ store = {}
    /\ nextId = 1
    /\ savers = [s \in Savers |-> [pc |-> "idle", body |-> NoBody]]
    /\ storeStatus = 0

(* POST /save by user 1 up to the answer of Route.findOne. *)
SaveCheck(s) ==
    /\ savers[s].pc = "idle"
    /\ nextId + Cardinality(SaversChecked) <= MaxRoutes
    /\ \E body \in SaveBodies :
        IF SaveRejected(body)
        THEN storeStatus' = 400 /\ UNCHANGED savers
        ELSE IF FindOne(1, body.name) # {}
        THEN storeStatus' = 409 /\ UNCHANGED savers
        ELSE /\ savers' = [savers EXCEPT ![s] = [pc |-> "checked", body |-> body]]
             /\ UNCHANGED storeStatus
    /\ UNCHANGED <<store, nextId>>
    /\ UNCHANGED outsideStore

(* POST /save from saveRouteToDb on: new Route(routeForDb).save().  The    *)
(* collection has no unique index, so the save fails only on validation.   *)
SaveRouteToDb(s) ==
    /\ savers[s].pc = "checked"
    /\ LET body == savers[s].body
           doc == [id |-> nextId, userId |-> 1, name |-> body.name,
                   routeType |-> body.routeType, distance |-> body.distance,
                   startPoint |-> body.startPoint, endPoint |-> body.endPoint]
       IN  IF SchemaValid(doc)
           THEN /\ store' = store \cup {doc}
                /\ nextId' = nextId + 1
                /\ storeStatus' = 201
           ELSE /\ storeStatus' = 400
                /\ UNCHANGED <<store, nextId>>
    /\ savers' = [savers EXCEPT ![s] = [pc |-> "idle", body |-> NoBody]]
    /\ UNCHANGED outsideStore

(* PUT /:id *)
UpdateRoute ==
    /\ \E id \in 1..MaxRoutes, user \in Users, updates \in UpdateBodies :
        LET found == FindById(id) IN
        IF found = {}
        THEN storeStatus' = 404 /\ UNCHANGED store
        ELSE LET routeDoc == CHOOSE r \in found : TRUE IN
             IF routeDoc.userId # user
             THEN storeStatus' = 403 /\ UNCHANGED store
             ELSE IF SchemaValid(ApplyUpdates(routeDoc, updates))
             THEN /\ store' = (store \ {routeDoc}) \cup {ApplyUpdates(routeDoc, updates)}
                  /\ storeStatus' = 200
             ELSE storeStatus' = 500 /\ UNCHANGED store
    /\ UNCHANGED <<nextId, savers>>
    /\ UNCHANGED outsideStore

(* DELETE /:id *)
DeleteRoute ==
    /\ \E id \in 1..MaxRoutes, user \in Users :
        LET found == FindById(id) IN
        IF found = {}
        THEN storeStatus' = 404 /\ UNCHANGED store
        ELSE LET routeDoc == CHOOSE r \in found : TRUE IN
             IF routeDoc.userId # user
             THEN storeStatus' = 403 /\ UNCHANGED store
             ELSE store' = store \ {routeDoc} /\ storeStatus' = 200
    /\ UNCHANGED <<nextId, savers>>
    /\ UNCHANGED outsideStore

NextStore ==
    \/ \E s \in Savers : SaveCheck(s)
    \/ \E s \in Savers : SaveRouteToDb(s)
    \/ UpdateRoute
    \/ DeleteRoute

SpecStore == InitStore /\ [][NextStore]_vars

----------------------------------------------------------------------------
(* Properties.                                                             *)

Searching == pc \in {"walkSearch", "citySearch"}

Succeeded == route # NoRecord

Failed == failure # NoRecord

LastErrorMessage == IF lastOutcome.error = NoRecord THEN "" ELSE lastOutcome.error.message

LastDistance == IF lastOutcome.ok THEN lastOutcome.response.distance ELSE NoDistance

InIdealWalkingRange(d) == d >= Km(5) /\ d <= Km(15)

AcceptableNotIdeal(d) == d >= Km(3) /\ d <= Km(20) /\ ~InIdealWalkingRange(d)

AcceptableMinimum == IF routeType = "walking" THEN Km(3) ELSE Km(5)

CyclingDaysConnected ==
    (Succeeded /\ route.isMultiDay) =>
        route.dayDetails[2].startPoint = route.dayDetails[1].endPoint

(* C3: when the day-1 search replaced its end waypoint, the first waypoint *)
(* of every day-2 provider request is the end waypoint of the accepted     *)
(* day-1 attempt, not the one proposed before the search.                  *)
Day2StartsAtDay1ActualEnd ==
    (routeType = "cycling" /\ day = 2 /\ calls >= 1
        /\ day1AcceptedEnd # day1Waypoints[2]) =>
        lastRequest.coordinates[1] = day1AcceptedEnd

(* C4: an authentication error on the first attempt of a search ends the   *)
(* search in failure at once.                                              *)
AuthErrorEndsSearchAtOnce ==
    (calls = 1 /\ LastErrorMessage = MsgAuth) => (pc = "done" /\ Failed)

(* C5: the walking search returns the response of the first attempt whose  *)
(* distance is within 5-15 km: once such a response has been received the  *)
(* generation is over, that response is the latest one (no later request), *)
(* it is the only ideal one received, and the route reports its distance   *)
(* and its path; and no route is returned otherwise.                       *)
WalkReturnsFirstIdealResponse ==
    routeType = "walking" =>
        /\ observed.ideal >= 1 =>
              /\ pc = "done" /\ Succeeded
              /\ observed.ideal = 1
              /\ InIdealWalkingRange(LastDistance)
              /\ route.distance = LastDistance
              /\ route.path = [i \in DOMAIN lastRequest.coordinates |->
                                  [lat |-> Snap(lastRequest.coordinates[i])[2],
                                   lng |-> Snap(lastRequest.coordinates[i])[1]]]
        /\ Succeeded => observed.ideal = 1

(* Responses of 18 or 16 km twice, then 13 km: accepted at attempt 3. *)
ShrinkingConvergence ==
    /\ routeType = "walking" /\ Succeeded
    /\ calls = 3 /\ observed.responses = 3
    /\ observed.max = 180 /\ observed.min = 130
    /\ route.distance = 130

ExhaustionReportsBestDistance ==
    (pc = "done" /\ calls >= 1 /\ observed.responses = calls
        /\ observed.max < AcceptableMinimum) =>
        (Failed /\ calls = 8 /\ failure.distance = observed.max)

(* C8: every day of a successful cycling route measures between 5 and      *)
(* 60 km.                                                                  *)
CyclingDaysWithinRange ==
    (Succeeded /\ route.isMultiDay) =>
        \A i \in 1..2 : /\ route.dayDetails[i].distance >= Km(5)
                        /\ route.dayDetails[i].distance <= Km(60)

WalkSettlesForAcceptable ==
    (routeType = "walking" /\ pc = "done" /\ calls = 8
        /\ AcceptableNotIdeal(LastDistance)) =>
        (Succeeded /\ route.distance = LastDistance)

(* C11: after an invalid request (HTTP 400), the waypoints and profile the *)
(* search sends next are not the ones that just failed.                    *)
RetryAfterBadRequestChangesRequest ==
    (Searching /\ LastErrorMessage = MsgStatus400) =>
        (currentWaypoints # lastRequest.coordinates
            \/ currentProfile # lastRequest.profile)

(* C12: after a 404 'profile not found' answer to a cycling-road request,  *)
(* the cycling day search goes on with cycling-regular and the same        *)
(* waypoints.                                                              *)
ProfileNotFoundSwitchesProfile ==
    (pc = "citySearch" /\ LastErrorMessage = MsgStatus404
        /\ lastRequest.profile = "cycling-road") =>
        (currentProfile = "cycling-regular"
            /\ currentWaypoints = lastRequest.coordinates)

GeocodingGaveNothing ==
    geocoded # NoOutcome /\ (~geocoded.ok \/ geocoded.response = NoCoord)

(* C15: when geocoding the start fails or yields no coordinates, route     *)
(* generation has failed and callOpenRouteService was never invoked.       *)
NoProviderCallWithoutStart ==
    GeocodingGaveNothing =>
        (pc = "done" /\ Failed /\ ~Succeeded /\ calls = 0
            /\ lastRequest = NoRecord /\ lastOutcome = NoOutcome)

CyclingFailedOnMissingStart ==
    /\ routeType = "cycling" /\ geocoded = Returned(NoCoord)
    /\ Failed /\ failure.message = "Could not find starting city coordinates"

(* C14: a cycling run whose day-2 search ended in an error has failed and  *)
(* returned no route, and every cycling route returned holds both days.    *)
CyclingAllOrNothing ==
    routeType = "cycling" =>
        /\ (pc = "done" /\ day = 2 /\ ~lastOutcome.ok) => (Failed /\ ~Succeeded)
        /\ Succeeded =>
            /\ day = 2 /\ lastOutcome.ok /\ ~Failed
            /\ Len(route.dayDetails) = 2
            /\ route.dayDetails[1].distance = day1Result.actualDistance
            /\ route.dayDetails[2].distance = LastDistance

Day2FailedAfterDay1 ==
    /\ routeType = "cycling" /\ pc = "done" /\ day = 2
    /\ day1Result # NoRecord /\ ~lastOutcome.ok /\ Failed

(* C17: every waypoint list a walking search holds or has sent ends with a *)
(* copy of its first coordinate, and the start and end point of a returned *)
(* walking route differ by less than 0.001 degree in latitude and in       *)
(* longitude.                                                              *)
WalkingRouteIsClosed ==
    routeType = "walking" =>
        /\ currentWaypoints # <<>> =>
            currentWaypoints[Len(currentWaypoints)] = currentWaypoints[1]
        /\ lastRequest # NoRecord =>
            lastRequest.coordinates[Len(lastRequest.coordinates)]
                = lastRequest.coordinates[1]
        /\ Succeeded =>
            /\ Abs(route.startPoint.lat - route.endPoint.lat) < 1000
            /\ Abs(route.startPoint.lng - route.endPoint.lng) < 1000

ClosedAfterShrinkAndGrow ==
    /\ routeType = "walking" /\ Succeeded
    /\ calls >= 3 /\ observed.min < Km(5) /\ observed.max > Km(15)
    /\ currentRadius # baseRadiusKm

CyclingTotalsExceptDuration ==
    /\ route.distance = route.dayDetails[1].distance + route.dayDetails[2].distance
    /\ route.distance = day1Result.actualDistance + LastDistance
    /\ route.elevationGain = day1Result.response.elevation + lastOutcome.response.elevation
    /\ route.path = route.dayDetails[1].path \o route.dayDetails[2].path
    /\ route.path = ToPath(day1Result.response.coordinates)
                        \o ToPath(lastOutcome.response.coordinates)

DayDurationsSum == route.dayDetails[1].duration + route.dayDetails[2].duration

FailureCause ==
    IF GeocodingGaveNothing THEN "location"
    ELSE IF LastErrorMessage = MsgCallFailed THEN "outage"
    ELSE IF LastErrorMessage = MsgAuth THEN "auth"
    ELSE "noRoute"

(* Errors generateRoute throws when the start is not geocoded, when the    *)
(* provider is out, and when a walking search runs out of attempts.        *)
LocationFailures ==
    {NewError("Could not find city/country coordinates"),
     NewError("Could not find starting city coordinates"),
     NewError("Failed to geocode location. Please check country/city name.")}

OutageFailures ==
    {CallFailed(MsgServerError), CallFailed(MsgTimeout),
     CyclingFailure(CallFailed(MsgServerError))}

NoRouteFailures ==
    {NewError(MsgWalkExhausted), NewError(MsgStatus400),
     CyclingFailure(NewError(MsgStatus400))}

FailuresOfOtherCause ==
    CASE FailureCause = "location" -> OutageFailures \cup NoRouteFailures
      [] FailureCause = "outage" -> LocationFailures \cup NoRouteFailures
      [] FailureCause = "noRoute" -> LocationFailures \cup OutageFailures
      [] OTHER -> {}

(* C16: the response POST /api/routes/generate gives to a failed run       *)
(* differs, in status or message, from the response it gives to a failure  *)
(* of either of the other two causes among: no suitable route, provider    *)
(* outage, location not geocoded.                                          *)
FailureResponseTellsCause ==
    (pc = "done" /\ Failed) =>
        \A other \in FailuresOfOtherCause :
            GenerateErrorResponse(failure) # GenerateErrorResponse(other)

OnlyTransientAnswers == \A i \in DOMAIN answers : answers[i] \in {0, 500}

(* C13: callOpenRouteService sends nothing but its own coordinates and     *)
(* profile.  While every answer was a network error or a 5xx, it has sent  *)
(* at most 3 requests, the waits after the failures were 1000, 2000 and    *)
(* 3000 ms (min(2^k * 500, 3000) after the k-th), nothing has reached the  *)
(* caller before the third failure, and then the caller gets one thrown    *)
(* error, 'Failed to call OpenRouteService after 3 attempts', which is one *)
(* outcome of the one call a search iteration makes.                       *)
TransientFailureRetriedTwice ==
    /\ \A i \in DOMAIN requests :
          requests[i] = [coordinates |-> orsCoordinates, profile |-> orsProfile]
    /\ OnlyTransientAnswers =>
        /\ Len(requests) <= 3
        /\ Len(backoffs) <= 3
        /\ \A k \in DOMAIN backoffs : backoffs[k] = <<1000, 2000, 3000>>[k]
        /\ Len(answers) < 3 => (orsPc = "done" <=> Len(answers) = 0 /\ orsOutcome # NoOutcome)
        /\ (orsPc = "done" /\ answers # <<>>) =>
              /\ Len(requests) = 3 /\ backoffs = <<1000, 2000, 3000>>
              /\ ~orsOutcome.ok /\ orsOutcome.error.message = MsgCallFailed
    /\ (orsPc = "done" /\ apiKey) =>
          \E out \in callOpenRouteService(orsCoordinates, orsProfile) :
              IF orsOutcome.ok THEN out = orsOutcome
              ELSE ~out.ok /\ out.error.message = orsOutcome.error.message

ThreeTransientFailures ==
    /\ orsPc = "done" /\ answers = <<500, 0, 500>>
    /\ orsOutcome = Thrown(CallFailed(MsgServerError))

SomeCoordinateInvalid ==
    \E i \in DOMAIN orsCoordinates :
        LET lng == orsCoordinates[i][1]
            lat == orsCoordinates[i][2]
        IN  \/ lat < 0 - 90000000 \/ lat > 90000000
            \/ lng < 0 - 180000000 \/ lng > 180000000
            \/ (lat > 0 - 100000 /\ lat < 100000 /\ lng > 0 - 100000 /\ lng < 100000)

(* C19: when some coordinate of the argument, at whatever index, is out of *)
(* range or next to (0,0), callOpenRouteService sends no request and takes *)
(* no rate-limiter slot, and ends with a thrown error.                     *)
InvalidCoordinateSendsNothing ==
    SomeCoordinateInvalid =>
        /\ requests = <<>> /\ slots = 0 /\ answers = <<>>
        /\ orsPc \in {"validate", "done"}
        /\ orsPc = "done" => (~orsOutcome.ok /\ orsOutcome.error # NoRecord)

InvalidLastCoordinateRejected ==
    /\ orsPc = "done" /\ apiKey /\ Len(orsCoordinates) = 3
    /\ orsCoordinates[3] = <<0 - 50000, 50000>>
    /\ orsOutcome = Thrown(NewError(MsgZeroCoord))

SomeConsecutivePairTooFar ==
    \E i \in 1..(Len(orsCoordinates) - 1) :
        LET dLng == (orsCoordinates[i + 1][1] - orsCoordinates[i][1]) \div 100
            dLat == (orsCoordinates[i + 1][2] - orsCoordinates[i][2]) \div 100
        IN  \/ Abs(dLng) > 10000 \/ Abs(dLat) > 10000
            \/ dLng * dLng + dLat * dLat > MaxSquaredGap

(* C20: when some pair of consecutive coordinates of the argument, at      *)
(* whatever position, is more than 80 km apart, callOpenRouteService sends *)
(* no request.                                                             *)
FarPairSendsNothing ==
    SomeConsecutivePairTooFar => (requests = <<>> /\ orsPc \in {"validate", "done"})

(* C22: every returned route with a distance above 0 reports a duration    *)
(* above 0.                                                                *)
DurationIsPositive ==
    (Succeeded /\ route.distance > 0) => route.estimatedDuration > 0

CityStartIsFixed ==
    (routeType = "cycling" /\ day >= 1) =>
        /\ \E i \in DOMAIN RandomDraws :
              /\ day1Waypoints = ProposedDay1Waypoints(center, RandomDraws[i])
              /\ day2Waypoints = ProposedDay2Waypoints(center, RandomDraws[i])
        /\ currentWaypoints[1] = SearchWaypoints[1]
        /\ calls > 0 => lastRequest.coordinates[1] = SearchWaypoints[1]
        /\ Len(currentWaypoints) = 2

StartKeptAfterExtensionAndReAim ==
    /\ routeType = "cycling" /\ pc = "citySearch" /\ day = 2 /\ attempt >= 2
    /\ observed.responses >= 1 /\ observed.min < Km(5) /\ calls > observed.responses
    /\ currentWaypoints # SearchWaypoints

(* baseRadius * 0.8^k * 1.3^m in millionths of a km, rounded down after    *)
(* each factor.                                                            *)
RECURSIVE RadiusAfter(_, _)
RadiusAfter(k, m) ==
    IF k > 0 THEN (RadiusAfter(k - 1, m) * 8) \div 10
    ELSE IF m > 0 THEN (RadiusAfter(k, m - 1) * 13) \div 10
    ELSE baseRadiusKm

(* C24: in a walking search that has seen k results above 15 km and m      *)
(* results below 5 km, the current radius is baseRadius * 0.8^k * 1.3^m    *)
(* (to within 50 millionths of a km, the rounding of the integer radius),  *)
(* the current waypoint list is the circle of that radius, and every list  *)
(* held or sent has numPoints + 1 entries, the last a copy of the first,   *)
(* with 6 <= numPoints <= 10.                                              *)
WalkRadiusFollowsResults ==
    (routeType = "walking" /\ pc # "start" /\ center # NoCoord) =>
        /\ Abs(currentRadius - RadiusAfter(observed.tooLong, observed.tooShort)) <= 50
        /\ currentWaypoints = CircleWaypoints(center, currentRadius)
        /\ numPoints >= 6 /\ numPoints <= 10
        /\ Len(currentWaypoints) = numPoints + 1
        /\ lastRequest # NoRecord => Len(lastRequest.coordinates) = numPoints + 1

TwoShrinksThreeGrows ==
    /\ routeType = "walking" /\ pc = "walkSearch"
    /\ observed.tooLong = 2 /\ observed.tooShort = 3
    /\ currentRadius # RadiusAfter(1, 3) /\ currentRadius # RadiusAfter(2, 2)

(* C21: every request sent through makeRateLimitedRequest, the one re-sent *)
(* after a 429 answer included, goes out while config.lastRequest and the  *)
(* last entry of config.requests are the time of that very request.        *)
EverySendHasItsSlot ==
    \A i \in DOMAIN sentLog :
        sentLog[i].lastRequest = sentLog[i].time /\ sentLog[i].recorded

ResentAfter429WithSlot ==
    \E c \in DOMAIN callers :
        /\ callers[c].pc = "inFlight" /\ callers[c].retried
        /\ Len(sentLog) >= 2
        /\ sentLog[Len(sentLog)].time = now
        /\ sentLog[Len(sentLog)].time - sentLog[Len(sentLog) - 1].time = 30000

(* C25: any two requests sent through makeRateLimitedRequest are sent at   *)
(* least delayMs (1500 ms) apart.                                          *)
SendsAreDelayMsApart ==
    \A i, j \in DOMAIN sentLog :
        i < j => sentLog[j].time - sentLog[i].time >= delayMs

SentWithinWindow == {i \in DOMAIN sentLog : now - sentLog[i].time < windowMs}

(* C26: at every moment at most maxRequests (40) requests have been sent   *)
(* within the last windowMs (60 s).                                        *)
SendsWithinWindowAtMostMax == Cardinality(SentWithinWindow) <= maxRequests

(* C27: routeGenerationLimiter hands at most 3 requests of a session to    *)
(* next() within any 5 minutes, answers a request over the limit with 429  *)
(* and a positive retryAfter, and keeps in the session only the times of   *)
(* requests it let through.                                                *)
GenerationLimitedPerSession ==
    /\ \A i, j \in DOMAIN passed :
        j >= i + genMaxRequests => passed[j] - passed[i] >= genWindowMs
    /\ (genResponse # NoRecord /\ genResponse.status = 429) =>
           genResponse.retryAfter > 0
    /\ Len(routeRequests) <= Len(passed)
    /\ routeRequests =
           SubSeq(passed, Len(passed) - Len(routeRequests) + 1, Len(passed))

FourthRequestRejected ==
    /\ genResponse # NoRecord
    /\ genResponse.status = 429
    /\ genResponse.retryAfter = 1
    /\ Len(passed) = genMaxRequests
    /\ genNow - passed[1] = genWindowMs - 1

(* C29: every stored walking route has a distance of 5 to 15 km and its    *)
(* start and end less than 0.001 degrees apart, whatever saves, updates    *)
(* and deletes came before.                                                *)
StoredWalkingRoutesValid ==
    \A r \in store :
        r.routeType = "walking" =>
            /\ r.distance >= Km(5)
            /\ r.distance <= Km(15)
            /\ IsCircular(r.startPoint, r.endPoint)

(* C30: no user has two stored routes with the same name. *)
NamesUniquePerUser ==
    \A r1, r2 \in store :
        (r1.userId = r2.userId /\ r1.name = r2.name) => r1.id = r2.id

====
